---- MODULE Spec2Model ----
(***************************************************************************)
(* MLflow Packer (src/main.py): an HTTP facade that lists models of an     *)
(* MLflow registry and builds / pushes container images for them.          *)
(*                                                                         *)
(* Strings are sequences of one-character strings, so that lower(),        *)
(* replace(), split(), strip() and the substring test are computed.        *)
(* Every image reference omits the organisation prefix {org}/, which is    *)
(* the same configuration value in every call.                             *)
(***************************************************************************)
EXTENDS Integers, Sequences, FiniteSets, TLC

(* ------------------------------------------------------------------ *)
(* Bounds of the model                                                 *)
(* ------------------------------------------------------------------ *)

\* longest TAGS configuration string drawn by InitList
MaxTagsLen == 3
\* number of /build requests in a behaviour of the concurrent specification
MaxRequests == 3
\* block size of the incremental read (4096 in the code, scaled down)
ChunkSize == 2
\* the digest is kept to this many hex digits (32 in md5)
HexDigits == 2

(* ------------------------------------------------------------------ *)
(* String helpers (Python str methods)                                 *)
(* ------------------------------------------------------------------ *)

Range(s) == {s[i] : i \in 1..Len(s)}

LowerChar(c) ==
    CASE c = "A" -> "a"
      [] c = "B" -> "b"
      [] c = "M" -> "m"
      [] OTHER -> c

\* str.lower()
Lower(s) == [i \in 1..Len(s) |-> LowerChar(s[i])]

\* str.replace(old, new) for one-character old and new
Replace(s, old, new) == [i \in 1..Len(s) |-> IF s[i] = old THEN new ELSE s[i]]

\* position of the first sep in s, 0 if there is none
RECURSIVE FindFrom(_, _, _)
FindFrom(s, sep, i) ==
    IF i > Len(s) THEN 0
    ELSE IF s[i] = sep THEN i
    ELSE FindFrom(s, sep, i + 1)

\* str.split(sep): "".split(",") = [""], "a,,b".split(",") = ["a","","b"]
RECURSIVE Split(_, _)
Split(s, sep) ==
    LET k == FindFrom(s, sep, 1) IN
    IF k = 0 THEN <<s>>
    ELSE <<SubSeq(s, 1, k - 1)>> \o Split(SubSeq(s, k + 1, Len(s)), sep)

RECURSIVE LStrip(_)
LStrip(s) == IF s # <<>> /\ Head(s) = " " THEN LStrip(Tail(s)) ELSE s

RECURSIVE RStrip(_)
RStrip(s) ==
    IF s # <<>> /\ s[Len(s)] = " " THEN RStrip(SubSeq(s, 1, Len(s) - 1)) ELSE s

\* str.strip()
Strip(s) == RStrip(LStrip(s))

\* sub in s (substring test)
Contains(s, sub) ==
    \E i \in 1..(Len(s) - Len(sub) + 1) : SubSeq(s, i, i + Len(sub) - 1) = sub

\* [f(e) for e in s if keep(e)] building blocks
RECURSIVE SelectSeqNonEmpty(_)
SelectSeqNonEmpty(s) ==
    IF s = <<>> THEN <<>>
    ELSE IF Head(s) # <<>> THEN <<Head(s)>> \o SelectSeqNonEmpty(Tail(s))
    ELSE SelectSeqNonEmpty(Tail(s))

(* ------------------------------------------------------------------ *)
(* Configuration and the external systems' contents                    *)
(* ------------------------------------------------------------------ *)

BASE_IMAGE_NAME ==
    <<"m","l","f","l","o","w","-","p","a","c","k","e","r","-","b","a","s","e">>

\* the salt b"24.01.2023" as byte values
Salt == <<50, 52, 46, 48, 49, 46, 50, 48, 50, 51>>

PyDep38 == <<"p","y","t","h","o","n","=","3",".","8">>
PyDep39 == <<"p","y","t","h","o","n","=","3",".","9">>
PipDep  == <<"p","i","p">>

ReqX == <<110, 112, 10>>

\* What `mlflow artifacts download` leaves in the temporary directory, per
\* version source: the number of directory entries, conda.yaml (a list of
\* dependency strings, or unparsable), requirements.txt (bytes, or absent).
Artifacts ==
    [ A |-> [entries |-> 1, yamlOk |-> TRUE,  deps |-> <<PyDep38, PipDep>>,
             hasReq |-> TRUE,  req |-> ReqX],
      B |-> [entries |-> 1, yamlOk |-> TRUE,  deps |-> <<PipDep, PyDep39>>,
             hasReq |-> TRUE,  req |-> ReqX],
      D |-> [entries |-> 0, yamlOk |-> TRUE,  deps |-> <<PyDep38>>,
             hasReq |-> TRUE,  req |-> ReqX],
      E |-> [entries |-> 2, yamlOk |-> TRUE,  deps |-> <<PyDep38>>,
             hasReq |-> TRUE,  req |-> ReqX],
      F |-> [entries |-> 1, yamlOk |-> FALSE, deps |-> <<>>,
             hasReq |-> TRUE,  req |-> ReqX],
      G |-> [entries |-> 1, yamlOk |-> TRUE,  deps |-> <<PyDep38>>,
             hasReq |-> FALSE, req |-> <<>>] ]

V1 == <<"1">>
V2 == <<"2">>
V3 == <<"3">>

\* The registered models of the MLflow registry: name, tag keys and
\* latest_versions (version -> source).
AllModels ==
    { [name |-> <<"m","_","a">>, tags |-> {<<"a">>},
       latest_versions |-> {[version |-> V1, source |-> "A", current_stage |-> "Production"],
                            [version |-> V2, source |-> "B", current_stage |-> "Staging"]}],
      [name |-> <<"M","b">>, tags |-> {<<"b">>},
       latest_versions |-> {[version |-> V1, source |-> "A", current_stage |-> "Production"],
                            [version |-> V2, source |-> "E", current_stage |-> "None"]}],
      [name |-> <<"c">>, tags |-> {},
       latest_versions |-> {[version |-> V1, source |-> "D", current_stage |-> "Archived"],
                            [version |-> V2, source |-> "F", current_stage |-> "Staging"],
                            [version |-> V3, source |-> "G", current_stage |-> "None"]}] }

Input(name, version, env) == [name |-> name, version |-> version, env |-> env]

\* the /build requests of the build specification: both build paths, a
\* model and a version that do not exist, two versions with the same
\* requirements.txt and different conda.yaml, and the failing artifacts
BuildInputs ==
    { Input(<<"m","_","a">>, V1, "baseimage"),
      Input(<<"m","_","a">>, V2, "baseimage"),
      Input(<<"m","_","a">>, V1, "conda"),
      Input(<<"m","_","a">>, V3, "baseimage"),
      Input(<<"z">>, V1, "baseimage"),
      Input(<<"M","b">>, V1, "baseimage"),
      Input(<<"M","b">>, V2, "baseimage"),
      Input(<<"c">>, V1, "baseimage"),
      Input(<<"c">>, V2, "baseimage"),
      Input(<<"c">>, V3, "baseimage") }

\* the base-image-mode /build requests of the concurrent specification:
\* three builds with the same requirements.txt (two of them with the same
\* python version) and a failing download
ConcInputs ==
    { Input(<<"m","_","a">>, V1, "baseimage"),
      Input(<<"m","_","a">>, V2, "baseimage"),
      Input(<<"M","b">>, V1, "baseimage"),
      Input(<<"c">>, V1, "baseimage") }

\* the /build requests of the image-listing specification
ImageInputs ==
    { Input(<<"m","_","a">>, V1, "baseimage"),
      Input(<<"M","b">>, V1, "baseimage"),
      Input(<<"M","b">>, V1, "conda"),
      Input(<<"M","b">>, V3, "conda") }

\* the clients' request slots
Reqs  == {"r1", "r2"}
\* the worker processes serving the app; each has its own working
\* directory and event loop, all share the docker daemon and the registry
Procs == {"w1", "w2"}

\* Directories: the start-up working directory, the temporary directory of
\* a running build, and a directory that has been removed.  A working
\* directory is held by inode, so a removed one never becomes valid again.
InitialCwd == [kind |-> "app", of |-> ""]
TmpDir(r)  == [kind |-> "tmp", of |-> r]
Removed    == [kind |-> "removed", of |-> ""]

TagChars == {"a", " ", ","}

RECURSIVE StringsUpTo(_)
StringsUpTo(n) ==
    IF n = 0 THEN {<<>>}
    ELSE LET S == StringsUpTo(n - 1) IN
         S \cup {Append(s, c) : s \in {t \in S : Len(t) = n - 1}, c \in TagChars}

\* The values config.get("Models", "TAGS", fallback="") can return:
\* configparser strips leading and trailing whitespace from a value.
ConfigValues == {s \in StringsUpTo(MaxTagsLen) : Strip(s) = s}

(* ------------------------------------------------------------------ *)
(* Pure functions of build_with_base_image                             *)
(* ------------------------------------------------------------------ *)

HashMod == 16 ^ HexDigits

\* hash.update(block): the digest state absorbs the block byte by byte
RECURSIVE md5_update(_, _)
md5_update(h, block) ==
    IF block = <<>> THEN h
    ELSE md5_update((h * 33 + Head(block)) % HashMod, Tail(block))

\* for byte_block in iter(lambda: f.read(4096), b""): md5_hash.update(byte_block)
RECURSIVE ReadChunks(_, _)
ReadChunks(h, bytes) ==
    IF bytes = <<>> THEN h
    ELSE LET n == IF Len(bytes) < ChunkSize THEN Len(bytes) ELSE ChunkSize IN
         ReadChunks(md5_update(h, SubSeq(bytes, 1, n)),
                    SubSeq(bytes, n + 1, Len(bytes)))

HexChar(d) ==
    <<"0","1","2","3","4","5","6","7","8","9","a","b","c","d","e","f">>[d + 1]

\* hexdigest(): fixed-width lower-case hexadecimal
RECURSIVE HexDigest(_, _)
HexDigest(h, n) ==
    IF n = 0 THEN <<>> ELSE Append(HexDigest(h \div 16, n - 1), HexChar(h % 16))

\* md5 of the salt followed by the file's bytes
RequirementsHash(bytes) ==
    HexDigest(ReadChunks(md5_update(5381 % HashMod, Salt), bytes), HexDigits)

\* [d for d in deps if "python" in d]
RECURSIVE PythonDeps(_)
PythonDeps(deps) ==
    IF deps = <<>> THEN <<>>
    ELSE IF Contains(Head(deps), <<"p","y","t","h","o","n">>)
         THEN <<Head(deps)>> \o PythonDeps(Tail(deps))
         ELSE PythonDeps(Tail(deps))

\* python_version.split("=")[-1]
PythonVersion(deps) ==
    LET parts == Split(PythonDeps(deps)[1], "=") IN parts[Len(parts)]

\* f"{python_version}-{req_hash}"
NewTag(python_version, req_hash) == python_version \o <<"-">> \o req_hash

\* the repository get_repo_tags queries for a name
QueryRepo(repo) == Replace(repo, "_", "-")

\* the repository part of new_name in the build paths
PushRepo(name) == Replace(Lower(name), "_", "-")

\* model_tags of list_models / list_docker_models
RECURSIVE StripAll(_)
StripAll(s) == IF s = <<>> THEN <<>> ELSE <<Strip(Head(s))>> \o StripAll(Tail(s))

ModelTags(tags) == StripAll(SelectSeqNonEmpty(Split(tags, ",")))

\* the models kept by the allow-list filter
FilterModels(ms, tags) ==
    LET model_tags == ModelTags(tags) IN
    {m \in ms : (\E i \in 1..Len(model_tags) : model_tags[i] \in m.tags)
                \/ Len(model_tags) = 0}

(* ------------------------------------------------------------------ *)
(* State                                                               *)
(* ------------------------------------------------------------------ *)

VARIABLES
    TAGS,        \* config.get("Models", "TAGS"), fixed at start-up
    models,      \* the registered models of the MLflow registry
    registry,    \* container registry: set of <<repository, tag>>
    images,      \* local image store of the docker daemon: <<repository, tag>>
    cwd,         \* working directory of each worker process
    dirs,        \* the temporary directories that exist
    pc,          \* position of each /build request in its handler
    proc,        \* the worker process that runs the request
    args,        \* name, version, env of the request
    loc,         \* local variables of build_with_base_image
    calls,       \* the external calls the request has invoked so far
    resp,        \* the HTTP response of the request
    modelsResp,  \* the last response of GET /models
    imagesResp,  \* the last response of GET /images
    started      \* number of /build requests received, counted up to MaxRequests

vars == <<TAGS, models, registry, images, cwd, dirs, pc, proc, args,
          loc, calls, resp, modelsResp, imagesResp, started>>

(* ------------------------------------------------------------------ *)
(* Helpers over the state                                              *)
(* ------------------------------------------------------------------ *)

Call(op, repo, tag) == [op |-> op, repo |-> repo, tag |-> tag]

NoLoc ==
    [model |-> <<>>, version |-> <<>>, source |-> "", cwd |-> InitialCwd,
     tmpdirname |-> InitialCwd, entries |-> 0, python_version |-> <<>>,
     reqBytes |-> <<>>, req_hash |-> <<>>, known_containers |-> {},
     lookupFailed |-> FALSE, new_tag |-> <<>>, overlay |-> "none",
     raisedAt |-> ""]

NoImages == [status |-> "none", versions |-> {}, built |-> {}]

\* a request is inside its handler
Active(r) == pc[r] \notin {"idle", "done"}

\* variant: the handlers run on a thread pool, any number at a time
Busy_Never(p) == FALSE

\* The handlers are `async def` without any await: the event loop of a
\* worker process runs one handler to completion before the next starts.
Busy(p) == \E r \in Reqs : Active(r) /\ proc[r] = p

\* get_repo_tags(repo): the tags of the queried repository.  The call
\* raises (ok = FALSE) when the login or the JSON decoding fails or when
\* the answer has no "token" / "results" key.
RepoTags(repo) == {ref[2] : ref \in {x \in registry : x[1] = QueryRepo(repo)}}
get_repo_tags(repo, ok) ==
    IF ok
    THEN [raised |-> FALSE, tags |-> RepoTags(repo)]
    ELSE [raised |-> TRUE,  tags |-> {}]

\* An exception leaves build_with_base_image: the `with` block removes the
\* temporary directory, os.chdir(cwd) at the end is not reached (the
\* process stays in the directory just removed), and the server answers 500.
Raise(r, at) ==
    /\ dirs' = dirs \ {loc[r].tmpdirname}
    /\ cwd' = [p \in Procs |-> IF cwd[p] = loc[r].tmpdirname THEN Removed ELSE cwd[p]]
    /\ loc' = [loc EXCEPT ![r].raisedAt = at]
    /\ pc' = [pc EXCEPT ![r] = "done"]
    /\ resp' = [resp EXCEPT ![r] = [status |-> 500, result |-> "Internal Server Error"]]

(* ------------------------------------------------------------------ *)
(* GET /build                                                          *)
(* ------------------------------------------------------------------ *)

\* [m for m in models if m.name == name]
FindModel(ms, name) == {m \in ms : m.name = name}

\* variant: the version filter keeps every version
FindVersion_Any(latest_versions, version) == latest_versions

\* [v for v in model.latest_versions if v.version == version]
FindVersion(latest_versions, version) == {v \in latest_versions : v.version = version}

\* build_docker_model up to the choice of the build path
BuildRequest(r, p, name, version, env) ==
    /\ pc[r] \in {"idle", "done"}
    /\ ~Busy(p)
    /\ LET model == FindModel(models, name)
           found == IF model = {} THEN {}
                    ELSE FindVersion((CHOOSE m \in model : TRUE).latest_versions, version)
       IN
       /\ proc' = [proc EXCEPT ![r] = p]
       /\ args' = [args EXCEPT ![r] = Input(name, version, env)]
       /\ calls' = [calls EXCEPT ![r] = {Call("prune", <<>>, <<>>)}]
       /\ IF model = {}
          THEN /\ resp' = [resp EXCEPT ![r] = [status |-> 200, result |-> "Model not found."]]
               /\ pc' = [pc EXCEPT ![r] = "done"]
               /\ loc' = [loc EXCEPT ![r] = NoLoc]
          ELSE IF found = {}
          THEN /\ resp' = [resp EXCEPT ![r] = [status |-> 200, result |-> "Version not found."]]
               /\ pc' = [pc EXCEPT ![r] = "done"]
               /\ loc' = [loc EXCEPT ![r] = NoLoc]
          ELSE /\ resp' = [resp EXCEPT ![r] = [status |-> 0, result |-> ""]]
               /\ pc' = [pc EXCEPT ![r] = IF env = "baseimage" THEN "bwbi" ELSE "mlflow_build"]
               /\ loc' = [loc EXCEPT ![r] =
                            [NoLoc EXCEPT !.model = name, !.version = version,
                                          !.source = (CHOOSE v \in found : TRUE).source]]
    /\ started' = IF started < MaxRequests THEN started + 1 ELSE started
    /\ UNCHANGED <<TAGS, models, registry, images, cwd, dirs, modelsResp, imagesResp>>

\* os.getcwd(), TemporaryDirectory(), os.chdir(tmpdirname) and the download
EnterTmp(r) ==
    /\ pc[r] = "bwbi"
    /\ LET p == proc[r] IN
       IF cwd[p] = Removed
       THEN \* os.getcwd() raises: the working directory was deleted
            /\ Raise(r, "getcwd")
            /\ UNCHANGED calls
       ELSE /\ dirs' = dirs \cup {TmpDir(r)}
            /\ cwd' = [cwd EXCEPT ![p] = TmpDir(r)]
            /\ calls' = [calls EXCEPT ![r] = @ \cup {Call("download", <<>>, <<>>)}]
            /\ loc' = [loc EXCEPT ![r].cwd = cwd[p],
                                  ![r].tmpdirname = TmpDir(r),
                                  ![r].entries = Artifacts[loc[r].source].entries]
            /\ pc' = [pc EXCEPT ![r] = "scan"]
            /\ UNCHANGED resp
    /\ UNCHANGED <<TAGS, models, registry, images, proc, args, modelsResp, imagesResp, started>>

\* variant: any non-empty download is accepted
OneEntry_AtLeast(n) == n >= 1

\* len(model_dir) == 1
OneEntry(n) == n = 1

\* model_dir = list(os.scandir(tmpdirname)); exactly one entry or raise
ScanDir(r) ==
    /\ pc[r] = "scan"
    /\ IF OneEntry(loc[r].entries)
       THEN /\ pc' = [pc EXCEPT ![r] = "conda"]
            /\ UNCHANGED <<cwd, dirs, loc, resp>>
       ELSE Raise(r, "scan")
    /\ UNCHANGED <<TAGS, models, registry, images, proc, args, calls,
                   modelsResp, imagesResp, started>>

\* extract python version from conda.yaml
ParseConda(r) ==
    /\ pc[r] = "conda"
    /\ LET art == Artifacts[loc[r].source] IN
       IF art.yamlOk /\ PythonDeps(art.deps) # <<>>
       THEN /\ loc' = [loc EXCEPT ![r].python_version = PythonVersion(art.deps)]
            /\ pc' = [pc EXCEPT ![r] = "hash"]
            /\ UNCHANGED <<cwd, dirs, resp>>
       ELSE Raise(r, "conda")
    /\ UNCHANGED <<TAGS, models, registry, images, proc, args, calls,
                   modelsResp, imagesResp, started>>

\* variant: the fingerprint is taken over conda.yaml (one byte per
\* dependency line) instead of requirements.txt
HashRequirements_Conda(r) ==
    /\ pc[r] = "hash"
    /\ LET art == Artifacts[loc[r].source] IN
       IF art.hasReq
       THEN /\ loc' = [loc EXCEPT ![r].reqBytes = art.req,
                                  ![r].req_hash = RequirementsHash(
                                      [i \in 1..Len(art.deps) |-> Len(art.deps[i])])]
            /\ pc' = [pc EXCEPT ![r] = "tags"]
            /\ UNCHANGED <<cwd, dirs, resp>>
       ELSE Raise(r, "hash")
    /\ UNCHANGED <<TAGS, models, registry, images, proc, args, calls,
                   modelsResp, imagesResp, started>>

\* create requirements hash
HashRequirements(r) ==
    /\ pc[r] = "hash"
    /\ LET art == Artifacts[loc[r].source] IN
       IF art.hasReq
       THEN /\ loc' = [loc EXCEPT ![r].reqBytes = art.req,
                                  ![r].req_hash = RequirementsHash(art.req)]
            /\ pc' = [pc EXCEPT ![r] = "tags"]
            /\ UNCHANGED <<cwd, dirs, resp>>
       ELSE Raise(r, "hash")
    /\ UNCHANGED <<TAGS, models, registry, images, proc, args, calls,
                   modelsResp, imagesResp, started>>

\* variant: no try/except around the tag lookup
LookupTags_NoExcept(r) ==
    /\ pc[r] = "tags"
    /\ calls' = [calls EXCEPT ![r] = @ \cup {Call("tags", QueryRepo(BASE_IMAGE_NAME), <<>>)}]
    /\ \E ok \in BOOLEAN :
         LET res == get_repo_tags(BASE_IMAGE_NAME, ok) IN
         IF res.raised
         THEN /\ dirs' = dirs \ {loc[r].tmpdirname}
              /\ cwd' = [p \in Procs |-> IF cwd[p] = loc[r].tmpdirname THEN Removed ELSE cwd[p]]
              /\ loc' = [loc EXCEPT ![r].lookupFailed = TRUE, ![r].raisedAt = "tags"]
              /\ pc' = [pc EXCEPT ![r] = "done"]
              /\ resp' = [resp EXCEPT ![r] = [status |-> 500, result |-> "Internal Server Error"]]
         ELSE /\ loc' = [loc EXCEPT ![r].known_containers = res.tags,
                                    ![r].new_tag = NewTag(loc[r].python_version, loc[r].req_hash)]
              /\ pc' = [pc EXCEPT ![r] = "decide"]
              /\ UNCHANGED <<cwd, dirs, resp>>
    /\ UNCHANGED <<TAGS, models, registry, images, proc, args, modelsResp, imagesResp, started>>

\* try: known_containers = get_repo_tags(BASE_IMAGE_NAME) except: []
\* and new_tag
LookupTags(r) ==
    /\ pc[r] = "tags"
    /\ \E ok \in BOOLEAN :
         LET res == get_repo_tags(BASE_IMAGE_NAME, ok) IN
         loc' = [loc EXCEPT ![r].known_containers = res.tags,
                            ![r].lookupFailed = res.raised,
                            ![r].new_tag = NewTag(loc[r].python_version, loc[r].req_hash)]
    /\ calls' = [calls EXCEPT ![r] = @ \cup {Call("tags", QueryRepo(BASE_IMAGE_NAME), <<>>)}]
    /\ pc' = [pc EXCEPT ![r] = "decide"]
    /\ UNCHANGED <<TAGS, models, registry, images, cwd, dirs, proc, args, resp,
                   modelsResp, imagesResp, started>>

\* docker_push(name): push the local image, if there is one, and return
\* the output of the push
docker_push(ref) == IF ref \in images THEN registry \cup {ref} ELSE registry
PushResult(ref)  == IF ref \in images THEN "pushed" ELSE "push error output"

\* variant: the base image is rebuilt whatever the known tags are
NeedsBase_Always(new_tag, known_containers) == TRUE

\* new_tag not in known_containers
NeedsBase(new_tag, known_containers) == new_tag \notin known_containers

\* build_mlflow_packer_base: write baseDockerfile, docker build, docker_push
BuildBase(r) ==
    /\ pc[r] = "decide"
    /\ NeedsBase(loc[r].new_tag, loc[r].known_containers)
    /\ LET ref == <<BASE_IMAGE_NAME, loc[r].new_tag>> IN
       /\ calls' = [calls EXCEPT ![r] = @ \cup {Call("build", ref[1], ref[2]),
                                                 Call("push", ref[1], ref[2])}]
       /\ \E built \in BOOLEAN :
            /\ images' = IF built THEN images \cup {ref} ELSE images
            /\ registry' = IF ref \in images' THEN registry \cup {ref} ELSE registry
    /\ pc' = [pc EXCEPT ![r] = "overlay_build"]
    /\ UNCHANGED <<TAGS, models, cwd, dirs, proc, args, loc, resp,
                   modelsResp, imagesResp, started>>

\* docker_pull(f"{BASE_IMAGE_NAME}:{new_tag}")
PullBase(r) ==
    /\ pc[r] = "decide"
    /\ ~NeedsBase(loc[r].new_tag, loc[r].known_containers)
    /\ LET ref == <<BASE_IMAGE_NAME, loc[r].new_tag>> IN
       /\ calls' = [calls EXCEPT ![r] = @ \cup {Call("pull", ref[1], ref[2])}]
       /\ images' = IF ref \in registry THEN images \cup {ref} ELSE images
    /\ pc' = [pc EXCEPT ![r] = "overlay_build"]
    /\ UNCHANGED <<TAGS, models, registry, cwd, dirs, proc, args, loc, resp,
                   modelsResp, imagesResp, started>>

\* inject main.py and setup.py, write Dockerfile, docker build; the exit
\* status of os.system is not looked at
OverlayBuild(r) ==
    /\ pc[r] = "overlay_build"
    /\ LET base == <<BASE_IMAGE_NAME, loc[r].new_tag>>
           ref  == <<PushRepo(loc[r].model), loc[r].version>> IN
       /\ calls' = [calls EXCEPT ![r] = @ \cup {Call("build", ref[1], ref[2])}]
       /\ \E built \in BOOLEAN :
            /\ built => base \in images \cup registry
            /\ images' = IF built THEN images \cup {ref} ELSE images
            /\ loc' = [loc EXCEPT ![r].overlay = IF built THEN "ok" ELSE "failed"]
    /\ pc' = [pc EXCEPT ![r] = "overlay_push"]
    /\ UNCHANGED <<TAGS, models, registry, cwd, dirs, proc, args, resp,
                   modelsResp, imagesResp, started>>

\* res = docker_push(new_name); leave the with block; os.chdir(cwd);
\* return res, answered as {"result": res}
OverlayPush(r) ==
    /\ pc[r] = "overlay_push"
    /\ LET ref == <<PushRepo(loc[r].model), loc[r].version>> IN
       /\ calls' = [calls EXCEPT ![r] = @ \cup {Call("push", ref[1], ref[2])}]
       /\ registry' = docker_push(ref)
       /\ resp' = [resp EXCEPT ![r] = [status |-> 200, result |-> PushResult(ref)]]
    /\ dirs' = dirs \ {loc[r].tmpdirname}
    /\ cwd' = [cwd EXCEPT ![proc[r]] = loc[r].cwd]
    /\ pc' = [pc EXCEPT ![r] = "done"]
    /\ UNCHANGED <<TAGS, models, images, proc, args, loc, modelsResp, imagesResp, started>>

\* mlflow_build_docker(version.source, new_name, env)
MlflowBuild(r) ==
    /\ pc[r] = "mlflow_build"
    /\ LET ref == <<PushRepo(loc[r].model), loc[r].version>> IN
       /\ calls' = [calls EXCEPT ![r] = @ \cup {Call("mlflow_build", ref[1], ref[2])}]
       /\ \E built \in BOOLEAN :
            images' = IF built THEN images \cup {ref} ELSE images
    /\ pc' = [pc EXCEPT ![r] = "mlflow_push"]
    /\ UNCHANGED <<TAGS, models, registry, cwd, dirs, proc, args, loc, resp,
                   modelsResp, imagesResp, started>>

\* res = docker_push(new_name) of the mlflow path, answered as {"result": res}
MlflowPush(r) ==
    /\ pc[r] = "mlflow_push"
    /\ LET ref == <<PushRepo(loc[r].model), loc[r].version>> IN
       /\ calls' = [calls EXCEPT ![r] = @ \cup {Call("push", ref[1], ref[2])}]
       /\ registry' = docker_push(ref)
       /\ resp' = [resp EXCEPT ![r] = [status |-> 200, result |-> PushResult(ref)]]
    /\ pc' = [pc EXCEPT ![r] = "done"]
    /\ UNCHANGED <<TAGS, models, images, cwd, dirs, proc, args, loc,
                   modelsResp, imagesResp, started>>

(* ------------------------------------------------------------------ *)
(* GET /models and GET /images                                         *)
(* ------------------------------------------------------------------ *)

list_models(p) ==
    /\ ~Busy(p)
    /\ modelsResp' =
          [status |-> 200,
           body |-> {[name |-> m.name,
                      latest_versions |-> {<<v.version, v.current_stage>> : v \in m.latest_versions}]
                     : m \in FilterModels(models, TAGS)}]
    /\ UNCHANGED <<TAGS, models, registry, images, cwd, dirs, pc, proc,
                   args, loc, calls, resp, imagesResp, started>>

\* the builds that have returned a successful push result
Built == {<<args[r].name, args[r].version>> :
             r \in {q \in Reqs : pc[q] = "done" /\ resp[q].result = "pushed"}}

list_docker_models(p) ==
    /\ ~Busy(p)
    /\ \E ok \in BOOLEAN :
         LET ms == FilterModels(models, TAGS) IN
         IF \A m \in ms : ~get_repo_tags(m.name, ok).raised
         THEN imagesResp' =
                [status |-> "ok",
                 versions |-> {[name |-> m.name, versions |-> get_repo_tags(m.name, ok).tags]
                               : m \in ms},
                 built |-> Built]
         ELSE imagesResp' = [status |-> "error", versions |-> {}, built |-> Built]
    /\ UNCHANGED <<TAGS, models, registry, images, cwd, dirs, pc, proc,
                   args, loc, calls, resp, modelsResp, started>>

(* ------------------------------------------------------------------ *)
(* Specifications                                                      *)
(* ------------------------------------------------------------------ *)

InitCommon ==
    /\ images = {}
    /\ cwd = [p \in Procs |-> InitialCwd]
    /\ dirs = {}
    /\ pc = [r \in Reqs |-> "idle"]
    /\ proc = [r \in Reqs |-> CHOOSE p \in Procs : TRUE]
    /\ args = [r \in Reqs |-> Input(<<>>, <<>>, "")]
    /\ loc = [r \in Reqs |-> NoLoc]
    /\ calls = [r \in Reqs |-> {}]
    /\ resp = [r \in Reqs |-> [status |-> 0, result |-> ""]]
    /\ modelsResp = [status |-> 0, body |-> {}]
    /\ imagesResp = NoImages
    /\ started = 0

\* the service with every model registered and no allow-list configured
Init ==
    /\ TAGS = <<>>
    /\ models = AllModels
    /\ registry = {}
    /\ InitCommon

Request(r, inputs) ==
    \E p \in Procs, i \in inputs : BuildRequest(r, p, i.name, i.version, i.env)

BaseImageSteps(r) ==
    \/ EnterTmp(r)
    \/ ScanDir(r)
    \/ ParseConda(r)
    \/ HashRequirements(r)
    \/ LookupTags(r)
    \/ BuildBase(r)
    \/ PullBase(r)
    \/ OverlayBuild(r)
    \/ OverlayPush(r)

Build(r, inputs) ==
    \/ Request(r, inputs)
    \/ BaseImageSteps(r)
    \/ MlflowBuild(r)
    \/ MlflowPush(r)

\* one client: /build requests one after the other, on either worker process
Next == Build("r1", BuildInputs)

Spec == Init /\ [][Next]_vars

\* two clients whose base-image-mode /build requests may overlap on two
\* worker processes
NextConc ==
    \E r \in Reqs :
        \/ started < MaxRequests /\ Request(r, ConcInputs)
        \/ BaseImageSteps(r)

SpecConc == Init /\ [][NextConc]_vars

\* /build requests followed by /images
NextImages ==
    \/ Build("r1", ImageInputs)
    \/ \E p \in Procs : list_docker_models(p)

SpecImages == Init /\ [][NextImages]_vars

\* the listing endpoints under every configured allow-list, every set of
\* registered models, and a registry with or without the models' images
InitList ==
    /\ TAGS \in ConfigValues
    /\ models \in SUBSET AllModels
    /\ registry \in {{}, {<<QueryRepo(m.name), V1>> : m \in AllModels}}
    /\ InitCommon

NextList ==
    \/ \E p \in Procs : list_models(p)
    \/ \E p \in Procs : list_docker_models(p)

SpecList == InitList /\ [][NextList]_vars

(* ------------------------------------------------------------------ *)
(* Properties                                                          *)
(* ------------------------------------------------------------------ *)

BaseOps  == {"build", "push", "pull"}
BuildOps == {"download", "build", "mlflow_build", "pull", "push"}

Ops(r) == {c.op : c \in calls[r]}

NoModel(a)   == FindModel(models, a.name) = {}
NoVersion(a) ==
    /\ ~NoModel(a)
    /\ \A m \in FindModel(models, a.name) : \A v \in m.latest_versions : v.version # a.version

\* C1: a /build request whose name matches no registered model, or whose
\* version matches no latest version of the matched model, is answered with
\* "Model not found." / "Version not found." straight away, and on that path
\* no download, no mlflow build-docker, no docker build, no pull and no push
\* is invoked.
C1_NotFoundInvokesNothing ==
    \A r \in Reqs :
        /\ (pc[r] # "idle" /\ NoModel(args[r])) =>
              /\ pc[r] = "done"
              /\ resp[r] = [status |-> 200, result |-> "Model not found."]
              /\ Ops(r) \cap BuildOps = {}
        /\ (pc[r] # "idle" /\ NoVersion(args[r])) =>
              /\ pc[r] = "done"
              /\ resp[r] = [status |-> 200, result |-> "Version not found."]
              /\ Ops(r) \cap BuildOps = {}
        /\ resp[r].result \in {"Model not found.", "Version not found."} =>
              NoModel(args[r]) \/ NoVersion(args[r])

C1_Witness ==
    /\ pc["r1"] = "done"
    /\ NoVersion(args["r1"])
    /\ resp["r1"].result = "Version not found."
    /\ Ops("r1") = {"prune"}

\* the request has taken one of the two branches of the base-image decision
PastDecision(r) == pc[r] \in {"overlay_build", "overlay_push"}

BaseCalls(r) == {c \in calls[r] : c.repo = BASE_IMAGE_NAME /\ c.op \in BaseOps}

\* C2: when the overlay build starts, exactly one branch has been taken: the
\* candidate tag was in the known list, the base image was pulled and
\* nothing was built or pushed for the base repository; or it was not, and
\* the base image was built and pushed under exactly the candidate tag and
\* nothing was pulled.  Before the decision no base-image call is made.
C2_ExactlyOneBranch ==
    \A r \in Reqs :
        LET t == loc[r].new_tag IN
        /\ (PastDecision(r) /\ t \in loc[r].known_containers) =>
              BaseCalls(r) = {Call("pull", BASE_IMAGE_NAME, t)}
        /\ (PastDecision(r) /\ t \notin loc[r].known_containers) =>
              BaseCalls(r) = {Call("build", BASE_IMAGE_NAME, t),
                              Call("push", BASE_IMAGE_NAME, t)}
        /\ pc[r] \in {"bwbi", "scan", "conda", "hash", "tags", "decide"} =>
              BaseCalls(r) = {}

C2_Witness ==
    \E r \in Reqs :
        /\ PastDecision(r)
        /\ loc[r].new_tag \in loc[r].known_containers
        /\ Call("pull", BASE_IMAGE_NAME, loc[r].new_tag) \in calls[r]

\* C3: a tag lookup that fails does not end the request: the known-tag
\* list is empty, the request goes on to build and push a new base image
\* and then builds and pushes the overlay image.
C3_LookupFailureBuilds ==
    \A r \in Reqs :
        loc[r].lookupFailed =>
           /\ loc[r].raisedAt = ""
           /\ loc[r].known_containers = {}
           /\ pc[r] \in {"decide", "overlay_build", "overlay_push", "done"}
           /\ pc[r] = "decide" => ENABLED BuildBase(r) /\ ~ENABLED PullBase(r)
           /\ pc[r] \in {"overlay_build", "overlay_push", "done"} =>
                 /\ Call("build", BASE_IMAGE_NAME, loc[r].new_tag) \in calls[r]
                 /\ Call("push", BASE_IMAGE_NAME, loc[r].new_tag) \in calls[r]
                 /\ "pull" \notin Ops(r)
           /\ pc[r] = "done" =>
                 /\ resp[r].status = 200
                 /\ Call("build", PushRepo(loc[r].model), loc[r].version) \in calls[r]
                 /\ Call("push", PushRepo(loc[r].model), loc[r].version) \in calls[r]

C3_Witness ==
    \E r \in Reqs :
        /\ loc[r].lookupFailed
        /\ pc[r] = "done"
        /\ resp[r].result = "pushed"
        /\ <<BASE_IMAGE_NAME, loc[r].new_tag>> \in registry

\* the request has computed its fingerprint and candidate tag
Tagged(r) == pc[r] \in {"decide", "overlay_build", "overlay_push"}

\* C5 (as claimed): two runs whose requirements.txt has the same bytes have
\* the same fingerprint and the same candidate tag, whatever else differs.
C5_SameBytesSameTag ==
    \A r1, r2 \in Reqs :
        (Tagged(r1) /\ Tagged(r2) /\ loc[r1].reqBytes = loc[r2].reqBytes) =>
            /\ loc[r1].req_hash = loc[r2].req_hash
            /\ loc[r1].new_tag = loc[r2].new_tag

\* C5 (amended): two runs whose requirements.txt has the same bytes have
\* the same fingerprint; their candidate tags are the same when the python
\* versions read from conda.yaml are the same too.
C5_SameBytesSameHash ==
    \A r1, r2 \in Reqs :
        (Tagged(r1) /\ Tagged(r2) /\ loc[r1].reqBytes = loc[r2].reqBytes) =>
            /\ loc[r1].req_hash = loc[r2].req_hash
            /\ loc[r1].python_version = loc[r2].python_version
                  => loc[r1].new_tag = loc[r2].new_tag

C5_Witness ==
    /\ Tagged("r1") /\ Tagged("r2")
    /\ loc["r1"].reqBytes = loc["r2"].reqBytes
    /\ loc["r1"].python_version = loc["r2"].python_version
    /\ args["r1"].name # args["r2"].name
    /\ loc["r1"].new_tag = loc["r2"].new_tag

\* C6 (as claimed): when the overlay build fails, the request does not go
\* on to push {modelName}:{version} and does not answer with a normal result.
C6_OverlayFailureSeen ==
    \A r \in Reqs :
        loc[r].overlay = "failed" =>
            /\ Call("push", PushRepo(loc[r].model), loc[r].version) \notin calls[r]
            /\ pc[r] = "done" => resp[r].status # 200

\* C7: when the download leaves zero or several entries, the request ends
\* with an exception raised at the directory check, and no tag lookup, no
\* build, no pull and no push has been invoked.
C7_WrongEntryCountRaises ==
    \A r \in Reqs :
        (pc[r] \notin {"idle", "bwbi", "scan"} /\ "download" \in Ops(r)
           /\ loc[r].entries # 1) =>
            /\ pc[r] = "done"
            /\ loc[r].raisedAt = "scan"
            /\ resp[r].status = 500
            /\ Ops(r) \cap {"tags", "build", "pull", "push", "mlflow_build"} = {}

C7_Witness ==
    /\ pc["r1"] = "done"
    /\ loc["r1"].entries = 2
    /\ loc["r1"].raisedAt = "scan"
    /\ Ops("r1") = {"prune", "download"}

\* C8 (as claimed): after build_with_base_image has ended, by return or by
\* exception, the working directory of the process is the one before the
\* call and the temporary directory is gone; so a process that is not
\* handling a request is in its initial working directory.
C8_CwdRestored ==
    /\ \A r \in Reqs : pc[r] = "done" => TmpDir(r) \notin dirs
    /\ \A r \in Reqs :
          (pc[r] = "done" /\ "download" \in Ops(r)) => cwd[proc[r]] = loc[r].cwd
    /\ \A p \in Procs : ~Busy(p) => cwd[p] = InitialCwd

\* the request is between os.chdir(tmpdirname) and the end of the with block
InTmp(r) ==
    pc[r] \in {"scan", "conda", "hash", "tags", "decide", "overlay_build", "overlay_push"}

\* C9 (as claimed): /build requests are not coordinated at all, so that a
\* second request can start in a process while a first one is inside its
\* temporary directory there, about to write its build file.
C9_Uncoordinated ==
    \A r1, r2 \in Reqs :
        (r1 # r2 /\ InTmp(r1) /\ ~Active(r2)) =>
            ENABLED (\E i \in ConcInputs :
                        BuildRequest(r2, proc[r1], i.name, i.version, i.env))

\* C9 (amended): requests handled by different worker processes are not
\* coordinated: a request that read a tag list without its candidate tag
\* builds and pushes the base image whatever the other request does.  The
\* requests of one process run one after the other, so a request that is
\* inside its with block always has its own temporary directory as the
\* working directory of its process.
C9_RaceOnTagsNotOnCwd ==
    /\ \A r \in Reqs :
          (pc[r] = "decide" /\ loc[r].new_tag \notin loc[r].known_containers)
             => ENABLED BuildBase(r)
    /\ \A r \in Reqs : InTmp(r) => cwd[proc[r]] = TmpDir(r) /\ TmpDir(r) \in dirs
    /\ \A r1, r2 \in Reqs :
          (r1 # r2 /\ Active(r1) /\ Active(r2)) => proc[r1] # proc[r2]

C9_Witness ==
    /\ pc["r1"] = "overlay_build" /\ pc["r2"] = "decide"
    /\ proc["r1"] # proc["r2"]
    /\ loc["r1"].new_tag = loc["r2"].new_tag
    /\ ~loc["r1"].lookupFailed /\ ~loc["r2"].lookupFailed
    /\ loc["r1"].new_tag \notin loc["r1"].known_containers
    /\ loc["r2"].new_tag \notin loc["r2"].known_containers
    /\ Call("push", BASE_IMAGE_NAME, loc["r1"].new_tag) \in calls["r1"]
    /\ <<BASE_IMAGE_NAME, loc["r1"].new_tag>> \in registry
    /\ ENABLED BuildBase("r2")

\* the allow-list a TAGS value stands for: its non-blank entries
AllowList(tags) == {Strip(e) : e \in Range(Split(tags, ","))} \ {<<>>}

Allowed(ms, tags) ==
    IF AllowList(tags) = {} THEN ms
    ELSE {m \in ms : m.tags \cap AllowList(tags) # {}}

\* C4 (as claimed): /models and /images return every registered model when
\* the allow-list is empty, and otherwise exactly the models with a tag key
\* of the allow-list, also when entries of TAGS are blank.
C4_AllowListFilter ==
    /\ modelsResp.status = 200 =>
          {e.name : e \in modelsResp.body} = {m.name : m \in Allowed(models, TAGS)}
    /\ imagesResp.status = "ok" =>
          {e.name : e \in imagesResp.versions} = {m.name : m \in Allowed(models, TAGS)}

\* C10 (as claimed): after a successful /build of model m at version v,
\* /images lists v under m.
C10_ImagesListsBuilt ==
    imagesResp.status = "ok" =>
        \A b \in imagesResp.built :
            \E e \in imagesResp.versions : e.name = b[1] /\ b[2] \in e.versions

====
